---- MODULE Spec2Model ----
(***************************************************************************)
(* CareCompass REST backend (src/server.js) and the patient-assignment     *)
(* backfill (src/migrate-patient-assignments.js) as a state machine.       *)
(*                                                                         *)
(* The state is the content of the six collections plus the requests that  *)
(* are between two awaited database calls.  The clock counts in units of   *)
(* 24 h (24*60*60*1000 ms): every duration the code uses is a whole number *)
(* of such units, and every comparison the code makes is kept as written   *)
(* (<, >=), so boundary instants are represented exactly.                  *)
(***************************************************************************)
EXTENDS Integers, Sequences, FiniteSets, TLC

\* ------------------------------------------------------------ constants
\* Program constants, in clock units of 24 h.
SessionTTL == 1
ShareTTL == 1
AnalysisWindow == 7
MinPasswordLen == 6
FoodThreshold == 70
MedThreshold == 90
HydrationThreshold == 60

\* Bounds of the model.
MaxClock == 2
MaxAnalysisClock == 8
MaxLinks == 2
MaxShareReqs == 2
MaxStoredLogs == 2
MaxNotes == 1
MaxLogs == 24
MaxRegisterReqs == 2

\* Input domains.
Tokens == {"t1", "t2"}
NoToken == ""
DoctorEmails == {"a@x.org", "b@x.org"}
CaregiverEmails == {"c@x.org"}
Emails == DoctorEmails \cup CaregiverEmails
Roles == {"doctor", "caregiver"}
GoodPassword == "secret1"
OtherPassword == "secret2"
ShortPassword == "abc"
PatientIds == {"p1", "p2"}
Codes == {"AAAAAA", "BBBBBB"}
Undefined == "undefined"
NoUser == [name |-> "", email |-> "", role |-> ""]

VARIABLES
    now,          \* Date.now(), in clock units
    doctors,      \* Doctor collection, in insertion order
    caregivers,   \* Caregiver collection, in insertion order
    sessions,     \* Session collection
    patients,     \* Patient collection
    logs,         \* Log collection, in insertion order
    notes,        \* ClinicianNote collection, in insertion order
    shareLinks,   \* ShareLink collection, in insertion order
    shareReqs,    \* createShareLink requests between their delete and their insert
    aiConfigured, \* OpenAI package loaded and OPENAI_API_KEY set
    registerReqs, \* register requests between their existence check and their insert
    patientData,  \* argument of the last generateBasicAnalysis call
    resp          \* the last response sent

vars == <<now, doctors, caregivers, sessions, patients, logs, notes,
          shareLinks, shareReqs, aiConfigured, registerReqs, patientData, resp>>

Range(s) == {s[i] : i \in 1..Len(s)}

\* ------------------------------------------------------------ utilities
\* crypto sha256 hex digest: a one-way injective image of the password.
hashPassword(password) == <<"sha256", password>>

verifyPassword(password, hashedPassword) == hashPassword(password) = hashedPassword

\* password.length of the passwords the model submits.
PasswordLength(password) ==
    CASE password = GoodPassword -> 7
      [] password = OtherPassword -> 7
      [] password = ShortPassword -> 3
      [] OTHER -> 0

\* /^[^\s@]+@[^\s@]+\.[^\s@]+$/ on the emails the model submits.
emailRegexTest(email) == email \in Emails

\* ------------------------------------------------------------ requireAuth
FindSession(token) == {s \in sessions : s.token = token}

requireAuth(token) ==
    IF token = NoToken
    THEN [status |-> 401, error |-> "Authentication required", user |-> NoUser]
    ELSE IF FindSession(token) = {}
    THEN [status |-> 401, error |-> "Invalid or expired session", user |-> NoUser]
    ELSE LET session == CHOOSE s \in FindSession(token) : TRUE
         IN  IF session.expiresAt < now
             THEN [status |-> 401, error |-> "Invalid or expired session", user |-> NoUser]
             ELSE [status |-> 200, error |-> "", user |-> session.user]

AuthFailure(op, auth) == [op |-> op, status |-> auth.status, error |-> auth.error]

\* ------------------------------------------------------------ Init
Init ==
    /\ now = 0
    /\ doctors = <<>>
    /\ caregivers = <<>>
    /\ sessions = {}
    /\ patients = {}
    /\ logs = <<>>
    /\ notes = <<>>
    /\ shareLinks = <<>>
    /\ shareReqs = <<>>
    /\ aiConfigured \in BOOLEAN
    /\ registerReqs = <<>>
    /\ patientData = <<>>
    /\ resp = [op |-> "none", status |-> 0]

\* The server started without OPENAI_API_KEY.
InitUnconfigured == Init /\ aiConfigured = FALSE

\* The server clock advances, up to the bound limit.
Tick(limit) ==
    /\ now < limit
    /\ now' = now + 1
    /\ UNCHANGED <<doctors, caregivers, sessions, patients, logs, notes,
                   shareLinks, shareReqs, aiConfigured, registerReqs, patientData, resp>>

\* ------------------------------------------------------------ accounts
UserModel(role) == IF role = "doctor" THEN doctors ELSE caregivers

FindUser(role, email) == {i \in 1..Len(UserModel(role)) : UserModel(role)[i].email = email}

\* POST /api/register
Register(name, email, password, confirmPassword, role) ==
    LET user == [name |-> name, email |-> email,
                 password |-> hashPassword(password), role |-> role]
        result ==
            IF name = "" \/ email = "" \/ password = "" \/ confirmPassword = "" \/ role = ""
            THEN [status |-> 400, error |-> "All fields are required"]
            ELSE IF role # "doctor" /\ role # "caregiver"
            THEN [status |-> 400, error |-> "Invalid role. Must be doctor or caregiver"]
            ELSE IF PasswordLength(password) < MinPasswordLen
            THEN [status |-> 400, error |-> "Password must be at least 6 characters"]
            ELSE IF password # confirmPassword
            THEN [status |-> 400, error |-> "Passwords do not match"]
            ELSE IF ~emailRegexTest(email)
            THEN [status |-> 400, error |-> "Invalid email format"]
            ELSE IF FindUser(role, email) # {}
            THEN [status |-> 409, error |-> "Email already registered"]
            ELSE [status |-> 201, error |-> ""]
    IN  /\ doctors' = IF result.status = 201 /\ role = "doctor"
                      THEN Append(doctors, user) ELSE doctors
        /\ caregivers' = IF result.status = 201 /\ role = "caregiver"
                         THEN Append(caregivers, user) ELSE caregivers
        /\ resp' = [op |-> "register", status |-> result.status, error |-> result.error]
        /\ UNCHANGED <<now, sessions, patients, logs, notes, shareLinks,
                       shareReqs, aiConfigured, registerReqs, patientData>>

\* A login handler that tells the caller which check failed.
LoginDistinctErrors(email, password, role, token) ==
    LET found == FindUser(role, email)
        user == UserModel(role)[CHOOSE i \in found : \A j \in found : i <= j]
        result ==
            IF email = "" \/ password = "" \/ role = ""
            THEN [status |-> 400, error |-> "Email, password, and role are required"]
            ELSE IF role # "doctor" /\ role # "caregiver"
            THEN [status |-> 400, error |-> "Invalid role"]
            ELSE IF found = {}
            THEN [status |-> 404, error |-> "User not found"]
            ELSE IF ~verifyPassword(password, user.password)
            THEN [status |-> 401, error |-> "Invalid credentials"]
            ELSE [status |-> 200, error |-> ""]
    IN  /\ FindSession(token) = {}
        /\ sessions' =
              IF result.status = 200
              THEN sessions \cup
                     {[token |-> token,
                       user |-> [name |-> user.name, email |-> user.email, role |-> user.role],
                       expiresAt |-> now + SessionTTL]}
              ELSE sessions
        /\ resp' = [op |-> "login", status |-> result.status, error |-> result.error,
                    token |-> IF result.status = 200 THEN token ELSE NoToken]
        /\ UNCHANGED <<now, doctors, caregivers, patients, logs, notes, shareLinks,
                       shareReqs, aiConfigured, registerReqs, patientData>>

\* POST /api/login.  token is the value generateToken() returns: 32 random
\* bytes, taken fresh with respect to the stored sessions.
Login(email, password, role, token) ==
    LET found == FindUser(role, email)
        user == UserModel(role)[CHOOSE i \in found : \A j \in found : i <= j]
        result ==
            IF email = "" \/ password = "" \/ role = ""
            THEN [status |-> 400, error |-> "Email, password, and role are required"]
            ELSE IF role # "doctor" /\ role # "caregiver"
            THEN [status |-> 400, error |-> "Invalid role"]
            ELSE IF found = {}
            THEN [status |-> 401, error |-> "Invalid credentials"]
            ELSE IF ~verifyPassword(password, user.password)
            THEN [status |-> 401, error |-> "Invalid credentials"]
            ELSE [status |-> 200, error |-> ""]
    IN  /\ FindSession(token) = {}
        /\ sessions' =
              IF result.status = 200
              THEN sessions \cup
                     {[token |-> token,
                       user |-> [name |-> user.name, email |-> user.email, role |-> user.role],
                       expiresAt |-> now + SessionTTL]}
              ELSE sessions
        /\ resp' = [op |-> "login", status |-> result.status, error |-> result.error,
                    token |-> IF result.status = 200 THEN token ELSE NoToken]
        /\ UNCHANGED <<now, doctors, caregivers, patients, logs, notes, shareLinks,
                       shareReqs, aiConfigured, registerReqs, patientData>>

\* A logout handler behind requireAuth: it refuses an absent, unknown or
\* expired token and leaves the expired row stored.
LogoutRequiresAuth(token) ==
    LET auth == requireAuth(token)
    IN  /\ sessions' = IF auth.status = 200 THEN sessions \ FindSession(token) ELSE sessions
        /\ resp' = [op |-> "logout", status |-> auth.status, error |-> auth.error]
        /\ UNCHANGED <<now, doctors, caregivers, patients, logs, notes, shareLinks,
                       shareReqs, aiConfigured, registerReqs, patientData>>

\* POST /api/logout
Logout(token) ==
    /\ sessions' = IF token # NoToken THEN sessions \ FindSession(token) ELSE sessions
    /\ resp' = [op |-> "logout", status |-> 200, error |-> ""]
    /\ UNCHANGED <<now, doctors, caregivers, patients, logs, notes, shareLinks,
                   shareReqs, aiConfigured, registerReqs, patientData>>

\* GET /api/me: requireAuth, then the handler answers with req.user.
GetMe(token) ==
    LET auth == requireAuth(token)
    IN  /\ resp' = IF auth.status # 200
                   THEN AuthFailure("me", auth)
                   ELSE [op |-> "me", status |-> 200, error |-> "", user |-> auth.user]
        /\ UNCHANGED <<now, doctors, caregivers, sessions, patients, logs, notes,
                       shareLinks, shareReqs, aiConfigured, registerReqs, patientData>>

\* ------------------------------------------------------------ register, step by step
\* The unique index on email of a user collection: the store refuses, with
\* error code 11000, a document whose email the collection already holds.
DuplicateKey(coll, doc) == \E k \in 1..Len(coll) : coll[k].email = doc.email

\* UserModel.create(doc) under that index.
InsertUser(coll, doc) == IF DuplicateKey(coll, doc) THEN coll ELSE Append(coll, doc)

\* POST /api/register up to the end of its first awaited call: the
\* validations and the findOne existence check.  A request that passes them
\* waits for its create; the others are answered at once.
RegisterCheck(name, email, password, confirmPassword, role) ==
    LET user == [name |-> name, email |-> email,
                 password |-> hashPassword(password), role |-> role]
        result ==
            IF name = "" \/ email = "" \/ password = "" \/ confirmPassword = "" \/ role = ""
            THEN [status |-> 400, error |-> "All fields are required"]
            ELSE IF role # "doctor" /\ role # "caregiver"
            THEN [status |-> 400, error |-> "Invalid role. Must be doctor or caregiver"]
            ELSE IF PasswordLength(password) < MinPasswordLen
            THEN [status |-> 400, error |-> "Password must be at least 6 characters"]
            ELSE IF password # confirmPassword
            THEN [status |-> 400, error |-> "Passwords do not match"]
            ELSE IF ~emailRegexTest(email)
            THEN [status |-> 400, error |-> "Invalid email format"]
            ELSE IF FindUser(role, email) # {}
            THEN [status |-> 409, error |-> "Email already registered"]
            ELSE [status |-> 0, error |-> ""]
    IN  /\ Len(registerReqs) < MaxRegisterReqs
        /\ registerReqs' = IF result.status = 0 THEN Append(registerReqs, user)
                           ELSE registerReqs
        /\ resp' = IF result.status = 0 THEN resp
                   ELSE [op |-> "register", status |-> result.status,
                         error |-> result.error, logged |-> FALSE]
        /\ UNCHANGED <<now, doctors, caregivers, sessions, patients, logs, notes,
                       shareLinks, shareReqs, aiConfigured, patientData>>

\* A register handler whose catch block answers every store error with 500.
RegisterInsertUncaught(i) ==
    LET user == registerReqs[i]
        refused == DuplicateKey(UserModel(user.role), user)
    IN  /\ i \in 1..Len(registerReqs)
        /\ doctors' = IF user.role = "doctor" THEN InsertUser(doctors, user) ELSE doctors
        /\ caregivers' = IF user.role = "caregiver" THEN InsertUser(caregivers, user)
                         ELSE caregivers
        /\ registerReqs' = SubSeq(registerReqs, 1, i - 1)
                              \o SubSeq(registerReqs, i + 1, Len(registerReqs))
        /\ resp' = IF refused
                   THEN [op |-> "register", status |-> 500,
                         error |-> "Server error during registration", logged |-> TRUE]
                   ELSE [op |-> "register", status |-> 201, error |-> "", logged |-> FALSE]
        /\ UNCHANGED <<now, sessions, patients, logs, notes, shareLinks, shareReqs,
                       aiConfigured, patientData>>

\* POST /api/register from its second awaited call on, for the pending request
\* at position i: the create, the 201 response, and the catch block, which
\* writes the error to the console and answers 409 for error code 11000.
RegisterInsert(i) ==
    LET user == registerReqs[i]
        refused == DuplicateKey(UserModel(user.role), user)
    IN  /\ i \in 1..Len(registerReqs)
        /\ doctors' = IF user.role = "doctor" THEN InsertUser(doctors, user) ELSE doctors
        /\ caregivers' = IF user.role = "caregiver" THEN InsertUser(caregivers, user)
                         ELSE caregivers
        /\ registerReqs' = SubSeq(registerReqs, 1, i - 1)
                              \o SubSeq(registerReqs, i + 1, Len(registerReqs))
        /\ resp' = IF refused
                   THEN [op |-> "register", status |-> 409,
                         error |-> "Email already registered", logged |-> TRUE]
                   ELSE [op |-> "register", status |-> 201, error |-> "", logged |-> FALSE]
        /\ UNCHANGED <<now, sessions, patients, logs, notes, shareLinks, shareReqs,
                       aiConfigured, patientData>>

NextRegister ==
    \/ \E e \in {"a@x.org", "b@x.org", "bad-email"}, r \in Roles,
          c \in {GoodPassword, OtherPassword} :
          RegisterCheck("N", e, GoodPassword, c, r)
    \/ \E i \in 1..MaxRegisterReqs : RegisterInsert(i)

SpecRegister == InitUnconfigured /\ [][NextRegister]_vars

\* ------------------------------------------------------------ accounts and sessions
NextAuth ==
    \/ Tick(MaxClock)
    \/ \E e \in {"a@x.org", "bad-email"}, r \in Roles, p \in {GoodPassword, ShortPassword},
          c \in {GoodPassword, OtherPassword} :
          Register("N", e, p, c, r)
    \/ \E e \in {"a@x.org"}, r \in Roles, p \in {GoodPassword, OtherPassword}, t \in Tokens :
          Login(e, p, r, t)
    \/ \E t \in Tokens \cup {NoToken} : Logout(t)
    \/ \E t \in Tokens \cup {NoToken} : GetMe(t)

SpecAuth == InitUnconfigured /\ [][NextAuth]_vars

\* C1: a session whose expiresAt is at or before the clock, the boundary
\* expiresAt = now included, makes requireAuth answer 401 and attach no user,
\* although the row is still stored.
C1_ExpiredSessionRejected ==
    [][\A t \in Tokens :
          (GetMe(t) /\ \E s \in sessions : s.token = t /\ s.expiresAt <= now)
             => (resp'.status = 401 /\ requireAuth(t).user = NoUser)]_vars

\* ------------------------------------------------------------ patients
\* A field an open-schema document may lack, hold null, or hold an array in.
AbsentV == [t |-> "absent", v |-> <<>>]
NullV == [t |-> "null", v |-> <<>>]
Arr(seq) == [t |-> "arr", v |-> seq]
NoDoctor == "(absent)"

\* MongoDB query operators on such a field.
\* { field: x }: the array holds x.
MatchContains(val, x) == val.t = "arr" /\ x \in Range(val.v)
\* { field: { $size: 0 } }
MatchSizeZero(val) == val.t = "arr" /\ Len(val.v) = 0
\* { field: null }: null or missing.
MatchNull(val) == val.t \in {"null", "absent"}
\* { field: { $exists: false } }
MatchNotExists(val) == val.t = "absent"

\* Patient.findOne({ id }): the stored ids are non-empty strings, so a filter
\* value of undefined (sent as null by the driver) matches no stored patient.
FindPatient(id) == {p \in patients : p.id = id}

\* The $or filter without its { $size: 0 } clause.
DoctorFilterNoEmpty(p, email) ==
    \/ p.assignedDoctorId = email
    \/ MatchContains(p.assignedDoctorIds, email)
    \/ MatchNull(p.assignedDoctorIds)
    \/ MatchNotExists(p.assignedDoctorIds)

\* The $or filter of GET /api/patients for a doctor.
DoctorFilter(p, email) ==
    \/ p.assignedDoctorId = email
    \/ MatchContains(p.assignedDoctorIds, email)
    \/ MatchSizeZero(p.assignedDoctorIds)
    \/ MatchNull(p.assignedDoctorIds)
    \/ MatchNotExists(p.assignedDoctorIds)

\* GET /api/patients
ListPatients(token) ==
    LET auth == requireAuth(token)
        found == IF auth.user.role = "caregiver" THEN patients
                 ELSE IF auth.user.role = "doctor"
                 THEN {p \in patients : DoctorFilter(p, auth.user.email)}
                 ELSE {}
    IN  /\ resp' = IF auth.status # 200
                   THEN AuthFailure("listPatients", auth)
                   ELSE [op |-> "listPatients", status |-> 200, error |-> "",
                         user |-> auth.user, body |-> found]
        /\ UNCHANGED <<now, doctors, caregivers, sessions, patients, logs, notes,
                       shareLinks, shareReqs, aiConfigured, registerReqs, patientData>>

\* A createPatient handler that keeps the assignedDoctorIds of the payload
\* when the payload carries one.
CreatePatientKeepsPayload(token, p) ==
    LET auth == requireAuth(token)
        stored == IF auth.user.role = "doctor" /\ p.assignedDoctorIds = AbsentV
                  THEN [p EXCEPT !.assignedDoctorIds = Arr(<<auth.user.email>>)]
                  ELSE p
        result == IF auth.status # 200 THEN [status |-> auth.status, error |-> auth.error]
            ELSE IF p.id = "" THEN [status |-> 400, error |-> "id required"]
            ELSE IF FindPatient(p.id) # {} THEN [status |-> 409, error |-> "patient exists"]
            ELSE [status |-> 201, error |-> ""]
    IN  /\ patients' = IF result.status = 201 THEN patients \cup {stored} ELSE patients
        /\ resp' = [op |-> "createPatient", status |-> result.status,
                    error |-> result.error, id |-> p.id]
        /\ UNCHANGED <<now, doctors, caregivers, sessions, logs, notes, shareLinks,
                       shareReqs, aiConfigured, registerReqs, patientData>>

\* POST /api/patients.  p is the request body; p.id = "" stands for a body
\* without id.
CreatePatient(token, p) ==
    LET auth == requireAuth(token)
        stored == IF auth.user.role = "doctor"
                  THEN [p EXCEPT !.assignedDoctorIds = Arr(<<auth.user.email>>)]
                  ELSE p
        result ==
            IF auth.status # 200 THEN [status |-> auth.status, error |-> auth.error]
            ELSE IF p.id = "" THEN [status |-> 400, error |-> "id required"]
            ELSE IF FindPatient(p.id) # {} THEN [status |-> 409, error |-> "patient exists"]
            ELSE [status |-> 201, error |-> ""]
    IN  /\ patients' = IF result.status = 201 THEN patients \cup {stored} ELSE patients
        /\ resp' = [op |-> "createPatient", status |-> result.status,
                    error |-> result.error, id |-> p.id]
        /\ UNCHANGED <<now, doctors, caregivers, sessions, logs, notes,
                       shareLinks, shareReqs, aiConfigured, registerReqs, patientData>>

\* req.params[name] of a route whose path parameters are params.
Param(params, name) == IF name \in DOMAIN params THEN params[name] ELSE Undefined

\* POST /api/patients/:id/assign.  The route binds the path segment to
\* req.params.id; the handler reads req.params.patientId.
AssignPatient(token, id, doctorEmails) ==
    LET auth == requireAuth(token)
        params == [id |-> id]
        patientId == Param(params, "patientId")
        result ==
            IF auth.status # 200 THEN [status |-> auth.status, error |-> auth.error]
            ELSE IF auth.user.role # "caregiver"
            THEN [status |-> 403, error |-> "Only caregivers can assign patients"]
            ELSE IF doctorEmails.t # "arr" \/ Len(doctorEmails.v) = 0
            THEN [status |-> 400, error |-> "doctorEmails array required"]
            ELSE IF FindPatient(patientId) = {}
            THEN [status |-> 404, error |-> "Patient not found"]
            ELSE [status |-> 200, error |-> ""]
    IN  /\ patients' =
              IF result.status = 200
              THEN {IF p.id = patientId THEN [p EXCEPT !.assignedDoctorIds = doctorEmails]
                    ELSE p : p \in patients}
              ELSE patients
        /\ resp' = [op |-> "assignPatient", status |-> result.status,
                    error |-> result.error, id |-> id]
        /\ UNCHANGED <<now, doctors, caregivers, sessions, logs, notes,
                       shareLinks, shareReqs, aiConfigured, registerReqs, patientData>>

\* Model.deleteOne(filter): the first matching document of the collection goes.
RECURSIVE DeleteOne(_, _)
DeleteOne(coll, id) ==
    IF coll = <<>> THEN <<>>
    ELSE IF Head(coll).patientId = id THEN Tail(coll)
    ELSE <<Head(coll)>> \o DeleteOne(Tail(coll), id)

\* Model.deleteMany(filter): every matching document goes.
DeleteMany(coll, id) == SelectSeq(coll, LAMBDA d : d.patientId # id)

\* DELETE /api/patients/:id
DeletePatient(token, id) ==
    LET auth == requireAuth(token)
        ok == auth.status = 200
    IN  /\ patients' = IF ok THEN patients \ FindPatient(id) ELSE patients
        /\ logs' = IF ok THEN DeleteMany(logs, id) ELSE logs
        /\ notes' = IF ok THEN DeleteMany(notes, id) ELSE notes
        /\ shareLinks' = IF ok THEN DeleteOne(shareLinks, id) ELSE shareLinks
        /\ resp' = IF ok THEN [op |-> "deletePatient", status |-> 200, error |-> "", id |-> id]
                   ELSE AuthFailure("deletePatient", auth)
        /\ UNCHANGED <<now, doctors, caregivers, sessions, shareReqs,
                       aiConfigured, registerReqs, patientData>>

\* The migration filter without its { $size: 0 } clause.
UnassignedNoEmpty(p) ==
    \/ MatchNull(p.assignedDoctorIds)
    \/ MatchNotExists(p.assignedDoctorIds)

\* The $or filter of the backfill: empty, null or missing assignedDoctorIds.
Unassigned(p) ==
    \/ MatchSizeZero(p.assignedDoctorIds)
    \/ MatchNull(p.assignedDoctorIds)
    \/ MatchNotExists(p.assignedDoctorIds)

\* migratePatients: status is the exit code of the process.
Backfill ==
    LET doctorEmails == [i \in 1..Len(doctors) |-> doctors[i].email]
        unassignedPatients == {p \in patients : Unassigned(p)}
        run == Len(doctors) # 0 /\ unassignedPatients # {}
    IN  /\ patients' =
              IF run
              THEN {IF Unassigned(p) THEN [p EXCEPT !.assignedDoctorIds = Arr(doctorEmails)]
                    ELSE p : p \in patients}
              ELSE patients
        /\ resp' = [op |-> "backfill",
                    status |-> IF Len(doctors) = 0 THEN 1 ELSE 0,
                    matched |-> IF Len(doctors) = 0 THEN 0 ELSE Cardinality(unassignedPatients)]
        /\ UNCHANGED <<now, doctors, caregivers, sessions, logs, notes,
                       shareLinks, shareReqs, aiConfigured, registerReqs, patientData>>

\* ------------------------------------------------------------ patient visibility and assignment
AssignValues == {AbsentV, NullV, Arr(<<>>), Arr(<<"a@x.org">>), Arr(<<"b@x.org">>)}

PatientPayloads ==
    [id : PatientIds,
     assignedDoctorId : {NoDoctor, "a@x.org"},
     assignedDoctorIds : AssignValues]
    \cup {[id |-> "", assignedDoctorId |-> NoDoctor, assignedDoctorIds |-> AbsentV]}

NextPatient ==
    \/ Register("N", "a@x.org", GoodPassword, GoodPassword, "doctor")
    \/ Register("N", "c@x.org", GoodPassword, GoodPassword, "caregiver")
    \/ \E t \in Tokens : Login("a@x.org", GoodPassword, "doctor", t)
    \/ \E t \in Tokens : Login("c@x.org", GoodPassword, "caregiver", t)
    \/ \E t \in Tokens : ListPatients(t)
    \/ \E t \in Tokens, p \in PatientPayloads : CreatePatient(t, p)
    \/ \E t \in Tokens, id \in PatientIds, l \in {NullV, Arr(<<>>), Arr(<<"b@x.org">>)} :
          AssignPatient(t, id, l)
    \/ \E t \in Tokens, id \in PatientIds : DeletePatient(t, id)
    \/ Backfill

SpecPatient == InitUnconfigured /\ [][NextPatient]_vars

\* ------------------------------------------------------------ logs and notes
\* { ...base, ...payload }: the keys of payload replace those of base.
Spread(base, payload) ==
    [k \in DOMAIN base \cup DOMAIN payload |->
        IF k \in DOMAIN payload THEN payload[k] ELSE base[k]]

\* POST /api/logs/:patientId.  payload is the request body: an object with
\* any of the keys of a log.
CreateLog(token, patientId, payload) ==
    LET auth == requireAuth(token)
        log == Spread([patientId |-> patientId, createdAt |-> now], payload)
    IN  /\ Len(logs) < MaxStoredLogs
        /\ logs' = IF auth.status = 200 THEN Append(logs, log) ELSE logs
        /\ resp' = IF auth.status = 200
                   THEN [op |-> "createLog", status |-> 201, error |-> "", body |-> log]
                   ELSE AuthFailure("createLog", auth)
        /\ UNCHANGED <<now, doctors, caregivers, sessions, patients, notes,
                       shareLinks, shareReqs, aiConfigured, registerReqs, patientData>>

\* .sort({ createdAt: -1 }): stable, most recent first.
RECURSIVE SortDescending(_)
SortDescending(coll) ==
    IF coll = <<>> THEN <<>>
    ELSE LET rest == SortDescending(Tail(coll))
             d == Head(coll)
             k == Cardinality({j \in 1..Len(rest) : rest[j].createdAt > d.createdAt})
         IN  SubSeq(rest, 1, k) \o <<d>> \o SubSeq(rest, k + 1, Len(rest))

\* .sort({ createdAt: 1 }): stable, oldest first.
RECURSIVE SortAscending(_)
SortAscending(coll) ==
    IF coll = <<>> THEN <<>>
    ELSE LET rest == SortAscending(Tail(coll))
             d == Head(coll)
             k == Cardinality({j \in 1..Len(rest) : rest[j].createdAt < d.createdAt})
         IN  SubSeq(rest, 1, k) \o <<d>> \o SubSeq(rest, k + 1, Len(rest))

\* Log.find({ patientId }).sort({ createdAt: -1 })
FindLogs(patientId) ==
    SortDescending(SelectSeq(logs, LAMBDA d : d.patientId = patientId))

\* GET /api/logs/:patientId
ListLogs(token, patientId) ==
    LET auth == requireAuth(token)
    IN  /\ resp' = IF auth.status = 200
                   THEN [op |-> "listLogs", status |-> 200, error |-> "",
                         id |-> patientId, body |-> FindLogs(patientId)]
                   ELSE AuthFailure("listLogs", auth)
        /\ UNCHANGED <<now, doctors, caregivers, sessions, patients, logs, notes,
                       shareLinks, shareReqs, aiConfigured, registerReqs, patientData>>

\* POST /api/notes/:patientId
CreateNote(token, patientId, note) ==
    LET auth == requireAuth(token)
        doc == [patientId |-> patientId, note |-> note, createdAt |-> now]
    IN  /\ Len(notes) < MaxNotes
        /\ notes' = IF auth.status = 200 THEN Append(notes, doc) ELSE notes
        /\ resp' = IF auth.status = 200
                   THEN [op |-> "createNote", status |-> 201, error |-> "", body |-> doc]
                   ELSE AuthFailure("createNote", auth)
        /\ UNCHANGED <<now, doctors, caregivers, sessions, patients, logs,
                       shareLinks, shareReqs, aiConfigured, registerReqs, patientData>>

\* ------------------------------------------------------------ share links
\* ShareLink.create(doc): the document is appended to the collection.
InsertShareLink(coll, doc) == Append(coll, doc)

\* ShareLink.findOne({ patientId }): the first matching document, if any.
FindShareLinks(patientId) == SelectSeq(shareLinks, LAMBDA d : d.patientId = patientId)

\* POST /api/share/:patientId up to the end of its first awaited call:
\* requireAuth, the code and the expiry are computed, deleteOne has run.
\* code is the value of Math.random().toString(36).slice(2, 8).toUpperCase().
CreateShareLinkDelete(token, patientId, code) ==
    LET auth == requireAuth(token)
        doc == [patientId |-> patientId, code |-> code, expiresAt |-> now + ShareTTL]
    IN  /\ Len(shareReqs) < MaxShareReqs
        /\ shareLinks' = IF auth.status = 200 THEN DeleteOne(shareLinks, patientId)
                         ELSE shareLinks
        /\ shareReqs' = IF auth.status = 200 THEN Append(shareReqs, doc) ELSE shareReqs
        /\ resp' = IF auth.status = 200 THEN resp ELSE AuthFailure("createShareLink", auth)
        /\ UNCHANGED <<now, doctors, caregivers, sessions, patients, logs, notes,
                       aiConfigured, registerReqs, patientData>>

\* POST /api/share/:patientId from its second awaited call on: the create
\* and the response, for the pending request at position i.
CreateShareLinkInsert(i) ==
    /\ i \in 1..Len(shareReqs)
    /\ Len(shareLinks) < MaxLinks
    /\ shareLinks' = InsertShareLink(shareLinks, shareReqs[i])
    /\ shareReqs' = SubSeq(shareReqs, 1, i - 1) \o SubSeq(shareReqs, i + 1, Len(shareReqs))
    /\ resp' = [op |-> "createShareLink", status |-> 200, error |-> "", body |-> shareReqs[i]]
    /\ UNCHANGED <<now, doctors, caregivers, sessions, patients, logs, notes,
                   aiConfigured, registerReqs, patientData>>

\* GET /api/share/:patientId
GetShareLink(token, patientId) ==
    LET auth == requireAuth(token)
        found == FindShareLinks(patientId)
        result ==
            IF auth.status # 200 THEN AuthFailure("getShareLink", auth)
            ELSE IF found = <<>>
            THEN [op |-> "getShareLink", status |-> 404, error |-> ""]
            ELSE IF Head(found).expiresAt < now
            THEN [op |-> "getShareLink", status |-> 404, error |-> ""]
            ELSE [op |-> "getShareLink", status |-> 200, error |-> "", body |-> Head(found)]
    IN  /\ shareLinks' =
              IF auth.status = 200 /\ found # <<>> /\ Head(found).expiresAt < now
              THEN DeleteOne(shareLinks, patientId)
              ELSE shareLinks
        /\ resp' = result
        /\ UNCHANGED <<now, doctors, caregivers, sessions, patients, logs, notes,
                       shareReqs, aiConfigured, registerReqs, patientData>>

\* ------------------------------------------------------------ analysis
NotRecorded == "Not recorded"

\* log[key] || 'Not recorded'
FieldOr(log, key) ==
    IF key \in DOMAIN log /\ log[key] # "" THEN log[key] ELSE NotRecorded

\* The entry of patientData.logs built from a stored log.
FormatLog(log) ==
    [mood |-> FieldOr(log, "mood"),
     hydration |-> FieldOr(log, "hydration"),
     food |-> FieldOr(log, "food"),
     medication |-> FieldOr(log, "meds")]

\* hydration.includes('drank') on the hydration texts the model submits.
IncludesDrank(text) == text \in {"drank 2 cups", "drank well"}

\* (x).toFixed(0) for x = count / total * 100, truncating instead of rounding.
ToFixed0Truncated(count, total) == (100 * count) \div total

\* ((count / total) * 100).toFixed(0): the nearest integer, the larger one at
\* a tie.
ToFixed0(count, total) == (200 * count + total) \div (2 * total)

FoodFlag == "Monitor food intake closely. "
MedFlag == "Review medication schedule adherence. "
HydrationFlag == "Encourage increased hydration. "
ContinuePlan == "Overall compliance is good. Continue current care plan."

\* generateBasicAnalysis: the figures and the recommendation sentences of the
\* returned text, in the order they are appended.
generateBasicAnalysis(pd) ==
    LET ls == pd.logs
        foodCompliance == Len(SelectSeq(ls, LAMBDA l : l.food = "full"))
        medCompliance == Len(SelectSeq(ls, LAMBDA l : l.medication = "given"))
        hydrationCompliance ==
            Len(SelectSeq(ls, LAMBDA l : l.hydration # ""
                                         /\ (IncludesDrank(l.hydration) \/ l.hydration = "full")))
        foodPercent == ToFixed0(foodCompliance, Len(ls))
        medPercent == ToFixed0(medCompliance, Len(ls))
        hydrationPercent == ToFixed0(hydrationCompliance, Len(ls))
    IN  [days |-> Len(ls),
         foodPercent |-> foodPercent,
         medPercent |-> medPercent,
         hydrationPercent |-> hydrationPercent,
         recommendations |->
            (IF foodPercent < FoodThreshold THEN <<FoodFlag>> ELSE <<>>)
            \o (IF medPercent < MedThreshold THEN <<MedFlag>> ELSE <<>>)
            \o (IF hydrationPercent < HydrationThreshold THEN <<HydrationFlag>> ELSE <<>>)
            \o (IF foodPercent >= FoodThreshold /\ medPercent >= MedThreshold
                   /\ hydrationPercent >= HydrationThreshold
                THEN <<ContinuePlan>> ELSE <<>>)]

\* The response of the catch block around the external call, made the
\* response of the handler's outer catch block.
AiFailureAsServerError(pd) ==
    [op |-> "analysis", status |-> 500, error |-> "Server error generating analysis",
     hasData |-> FALSE, analysis |-> "", note |-> "", external |-> TRUE]

\* The response of the catch block around the external call.
AiFailureResponse(pd) ==
    [op |-> "analysis", status |-> 200,
     error |-> "AI analysis unavailable, showing basic analysis",
     hasData |-> TRUE, analysis |-> generateBasicAnalysis(pd), note |-> "",
     external |-> TRUE]

\* Log.find({ patientId, createdAt: { $gte: sevenDaysAgo } }).sort({ createdAt: 1 })
RecentLogs(patientId) ==
    SortAscending(SelectSeq(logs, LAMBDA d : d.patientId = patientId
                                            /\ d.createdAt >= now - AnalysisWindow))

\* GET /api/analysis/:patientId.  outcome is how the external call ends if
\* it is made; resp.external records whether it was made.
GetAnalysis(token, patientId, outcome) ==
    LET auth == requireAuth(token)
        selected == RecentLogs(patientId)
        pd == [patientId |-> patientId,
               logs |-> [i \in 1..Len(selected) |-> FormatLog(selected[i])]]
        basic == auth.status = 200 /\ FindPatient(patientId) # {} /\ selected # <<>>
                 /\ (~aiConfigured \/ outcome = "error")
    IN  /\ resp' =
              IF auth.status # 200 THEN AuthFailure("analysis", auth)
              ELSE IF FindPatient(patientId) = {}
              THEN [op |-> "analysis", status |-> 404, error |-> "Patient not found in database"]
              ELSE IF Len(selected) = 0
              THEN [op |-> "analysis", status |-> 200, error |-> "", hasData |-> FALSE,
                    analysis |-> "No data available for the last 7 days.", note |-> "",
                    external |-> FALSE]
              ELSE IF aiConfigured
              THEN IF outcome = "ok"
                   THEN [op |-> "analysis", status |-> 200, error |-> "", hasData |-> TRUE,
                         analysis |-> "completion", note |-> "", external |-> TRUE]
                   ELSE AiFailureResponse(pd)
              ELSE [op |-> "analysis", status |-> 200, error |-> "", hasData |-> TRUE,
                    analysis |-> generateBasicAnalysis(pd),
                    note |-> "AI analysis not configured.", external |-> FALSE]
        /\ patientData' = IF basic THEN pd ELSE patientData
        /\ UNCHANGED <<now, doctors, caregivers, sessions, patients, logs, notes,
                       shareLinks, shareReqs, aiConfigured, registerReqs>>

AnalysisPayloads ==
    {[food |-> "full", meds |-> "given", hydration |-> "drank 2 cups"],
     [createdAt |-> 5]}

NextAnalysis ==
    \/ Tick(MaxAnalysisClock)
    \/ Register("N", "c@x.org", GoodPassword, GoodPassword, "caregiver")
    \/ Login("c@x.org", GoodPassword, "caregiver", "t1")
    \/ Logout("t1")
    \/ CreatePatient("t1", [id |-> "p1", assignedDoctorId |-> NoDoctor,
                            assignedDoctorIds |-> AbsentV])
    \/ \E payload \in AnalysisPayloads : CreateLog("t1", "p1", payload)
    \/ \E outcome \in {"ok", "error"} : GetAnalysis("t1", "p1", outcome)

SpecAnalysis == Init /\ [][NextAnalysis]_vars

\* ------------------------------------------------------------ the heuristic on its own
\* A patientData of total logs of which the first food have food "full", the
\* first med have medication "given" and the first hyd record a hydration
\* intake; the counts of generateBasicAnalysis depend on nothing else.
SampleData(total, food, med, hyd) ==
    [patientId |-> "p1",
     logs |-> [i \in 1..total |->
                 [mood |-> NotRecorded,
                  food |-> IF i <= food THEN "full" ELSE IF i % 2 = 0 THEN "half" ELSE NotRecorded,
                  medication |-> IF i <= med THEN "given" ELSE "missed",
                  hydration |-> IF i <= hyd
                                THEN (IF i % 2 = 0 THEN "full" ELSE "drank 2 cups")
                                ELSE (IF i % 2 = 0 THEN "refused" ELSE NotRecorded)]]]

SampleInputs ==
    {SampleData(q[1], q[2], q[3], q[4]) :
        q \in {r \in (1..MaxLogs) \X (0..MaxLogs) \X (0..MaxLogs) \X (0..MaxLogs) :
                  r[2] <= r[1] /\ r[3] <= r[1] /\ r[4] <= r[1]}}

InitBasic ==
    /\ now = 0
    /\ doctors = <<>>
    /\ caregivers = <<>>
    /\ sessions = {}
    /\ patients = {}
    /\ logs = <<>>
    /\ notes = <<>>
    /\ shareLinks = <<>>
    /\ shareReqs = <<>>
    /\ aiConfigured = FALSE
    /\ registerReqs = <<>>
    /\ patientData \in SampleInputs
    /\ resp = [op |-> "none", status |-> 0]

\* generateBasicAnalysis(patientData) is called and its result kept.
BasicAnalysis ==
    /\ resp.op = "none"
    /\ resp' = [op |-> "basicAnalysis", status |-> 200, error |-> "",
                analysis |-> generateBasicAnalysis(patientData)]
    /\ UNCHANGED <<now, doctors, caregivers, sessions, patients, logs, notes,
                   shareLinks, shareReqs, aiConfigured, registerReqs, patientData>>

NextBasic == BasicAnalysis

SpecBasic == InitBasic /\ [][NextBasic]_vars

\* ------------------------------------------------------------ records of a patient
NextRecords ==
    \/ Register("N", "c@x.org", GoodPassword, GoodPassword, "caregiver")
    \/ Login("c@x.org", GoodPassword, "caregiver", "t1")
    \/ \E id \in PatientIds :
          CreatePatient("t1", [id |-> id, assignedDoctorId |-> NoDoctor,
                               assignedDoctorIds |-> AbsentV])
    \/ \E id \in PatientIds : CreateLog("t1", id, [food |-> "full"])
    \/ \E id \in PatientIds : ListLogs("t1", id)
    \/ \E id \in PatientIds : CreateNote("t1", id, "n")
    \/ \E id \in PatientIds : CreateShareLinkDelete("t1", id, "AAAAAA")
    \/ \E i \in 1..MaxShareReqs : CreateShareLinkInsert(i)
    \/ \E id \in PatientIds : DeletePatient("t1", id)

SpecRecords == InitUnconfigured /\ [][NextRecords]_vars

\* ------------------------------------------------------------ log creation
LogPayloads ==
    {[food |-> "full"],
     [patientId |-> "p2", food |-> "half"],
     [createdAt |-> 5, meds |-> "given"]}

NextLogs ==
    \/ Tick(MaxClock)
    \/ Register("N", "c@x.org", GoodPassword, GoodPassword, "caregiver")
    \/ \E t \in Tokens : Login("c@x.org", GoodPassword, "caregiver", t)
    \/ \E t \in Tokens, id \in PatientIds, payload \in LogPayloads : CreateLog(t, id, payload)
    \/ \E t \in Tokens, id \in PatientIds : ListLogs(t, id)

SpecLogs == InitUnconfigured /\ [][NextLogs]_vars

\* ------------------------------------------------------------ share link life cycle
NextShare ==
    \/ Tick(MaxClock)
    \/ Register("N", "c@x.org", GoodPassword, GoodPassword, "caregiver")
    \/ Login("c@x.org", GoodPassword, "caregiver", "t1")
    \/ Logout("t1")
    \/ \E id \in PatientIds, c \in Codes : CreateShareLinkDelete("t1", id, c)
    \/ \E i \in 1..MaxShareReqs : CreateShareLinkInsert(i)
    \/ \E id \in PatientIds : GetShareLink("t1", id)

SpecShare == InitUnconfigured /\ [][NextShare]_vars

\* ------------------------------------------------------------ the whole server
Next ==
    \/ NextAuth
    \/ NextRegister
    \/ NextPatient
    \/ NextRecords
    \/ NextLogs
    \/ NextShare
    \/ NextAnalysis

Spec == Init /\ [][Next]_vars

\* ------------------------------------------------------------ properties
\* The patient names email in its assignment list.
ListsDoctor(p, email) ==
    p.assignedDoctorIds.t = "arr"
    /\ \E i \in 1..Len(p.assignedDoctorIds.v) : p.assignedDoctorIds.v[i] = email

\* The patient's assignment list is empty, null or absent.
OpenToAll(p) ==
    \/ p.assignedDoctorIds.t \in {"null", "absent"}
    \/ p.assignedDoctorIds.t = "arr" /\ p.assignedDoctorIds.v = <<>>

\* C2 as stated: for a doctor with email e, listPatients returns exactly the
\* patients whose assignedDoctorIds contains e or is empty, null or absent,
\* whatever the legacy assignedDoctorId field holds.
C2_ListByAssignmentListOnly ==
    [][\A t \in Tokens :
          (ListPatients(t) /\ requireAuth(t).status = 200
                           /\ requireAuth(t).user.role = "doctor")
             => resp'.body = {p \in patients :
                                 ListsDoctor(p, requireAuth(t).user.email) \/ OpenToAll(p)}]_vars

\* C2 amended: for a doctor with email e, listPatients returns exactly the
\* patients whose assignedDoctorIds contains e or is empty, null or absent, or
\* whose legacy assignedDoctorId equals e.
C2_ListByAssignmentOrLegacy ==
    [][\A t \in Tokens :
          (ListPatients(t) /\ requireAuth(t).status = 200
                           /\ requireAuth(t).user.role = "doctor")
             => resp'.body = {p \in patients :
                                 \/ ListsDoctor(p, requireAuth(t).user.email)
                                 \/ OpenToAll(p)
                                 \/ p.assignedDoctorId = requireAuth(t).user.email}]_vars

\* A doctor has listed patients and received one that is assigned to another
\* doctor only and names the caller in the legacy field, while a stored patient
\* assigned to another doctor only was left out.
C2_Witness ==
    /\ resp.op = "listPatients"
    /\ resp.status = 200
    /\ resp.user.role = "doctor"
    /\ \E p \in resp.body :
          /\ ~OpenToAll(p)
          /\ ~ListsDoctor(p, resp.user.email)
          /\ p.assignedDoctorId = resp.user.email
    /\ \E p \in patients \ resp.body : ~OpenToAll(p) /\ ~ListsDoctor(p, resp.user.email)

\* C3: a caregiver's assignPatient with the id of a stored patient and a
\* non-empty list L succeeds, leaves that patient's assignedDoctorIds equal to
\* L, and changes no other patient.
C3_AssignReplacesList ==
    [][\A t \in Tokens, id \in PatientIds, l \in AssignValues :
          (/\ AssignPatient(t, id, l)
           /\ requireAuth(t).status = 200
           /\ requireAuth(t).user.role = "caregiver"
           /\ l.t = "arr" /\ Len(l.v) > 0
           /\ FindPatient(id) # {})
             => /\ resp'.status = 200
                /\ \A p \in patients' : p.id = id => p.assignedDoctorIds = l
                /\ {p \in patients' : p.id # id} = {p \in patients : p.id # id}]_vars

\* The documents of a collection that carry patientId id.
Of(coll, id) == SelectSeq(coll, LAMBDA d : d.patientId = id)

\* C4: after deletePatient(id) has answered success, no patient has that id
\* and no log, note or share link carries it, so listLogs(id) is empty; the
\* records of every other patientId are as before.
C4_DeleteCascades ==
    [][\A t \in Tokens, id \in PatientIds :
          (DeletePatient(t, id) /\ requireAuth(t).status = 200)
             => /\ resp'.status = 200
                /\ \A p \in patients' : p.id # id
                /\ Of(logs', id) = <<>>
                /\ Of(notes', id) = <<>>
                /\ Of(shareLinks', id) = <<>>
                /\ SortDescending(Of(logs', id)) = <<>>
                /\ \A o \in PatientIds \ {id} :
                      /\ {p \in patients' : p.id = o} = {p \in patients : p.id = o}
                      /\ Of(logs', o) = Of(logs, o)
                      /\ Of(notes', o) = Of(notes, o)
                      /\ Of(shareLinks', o) = Of(shareLinks, o)]_vars

\* C5: the Share-Link collection never holds two links of one patientId,
\* whatever the interleaving of the delete and insert steps of concurrent
\* createShareLink requests, and when a createShareLink call completes the
\* one link of its patient is the link it created.
C5_OneLinkPerPatient ==
    /\ [](\A id \in PatientIds : Len(Of(shareLinks, id)) <= 1)
    /\ [][\A i \in 1..MaxShareReqs :
             (i <= Len(shareReqs) /\ CreateShareLinkInsert(i))
                => Of(shareLinks', shareReqs[i].patientId) = <<shareReqs[i]>>]_vars

\* C6: getShareLink called after the stored link's expiresAt answers 404 and
\* leaves no stale link of that patient in the collection; called on a link
\* that has not expired it answers with the link and leaves the collection
\* unchanged.
C6_ExpiredLinkRemoved ==
    [][\A t \in Tokens, id \in PatientIds :
          (GetShareLink(t, id) /\ requireAuth(t).status = 200 /\ Of(shareLinks, id) # <<>>)
             => IF Head(Of(shareLinks, id)).expiresAt < now
                THEN /\ resp'.status = 404
                     /\ \A j \in 1..Len(shareLinks') :
                           shareLinks'[j].patientId = id => ~(shareLinks'[j].expiresAt < now)
                ELSE /\ resp'.status = 200
                     /\ resp'.body = Head(Of(shareLinks, id))
                     /\ shareLinks' = shareLinks]_vars

\* C10: every log createLog stores carries the patientId of the request path
\* and the server clock at insert time, whatever the payload holds, and every
\* other payload field as supplied.
C10_LogStampedByServer ==
    [][\A t \in Tokens, id \in PatientIds, payload \in LogPayloads :
          (CreateLog(t, id, payload) /\ requireAuth(t).status = 200)
             => /\ Len(logs') = Len(logs) + 1
                /\ logs'[Len(logs')].patientId = id
                /\ logs'[Len(logs')].createdAt = now
                /\ \A k \in DOMAIN payload \ {"patientId", "createdAt"} :
                      logs'[Len(logs')][k] = payload[k]]_vars

\* The counts the claim's percentages are made of.
FullMeals == Cardinality({i \in 1..Len(patientData.logs) : patientData.logs[i].food = "full"})
MedsGiven == Cardinality({i \in 1..Len(patientData.logs) :
                             patientData.logs[i].medication = "given"})
Hydrated == Cardinality({i \in 1..Len(patientData.logs) :
                            patientData.logs[i].hydration \in {"full", "drank 2 cups", "drank well"}})
Emitted(sentence) == sentence \in Range(resp.analysis.recommendations)

\* C7 as stated: the food, medication and hydration flags appear iff
\* count / total * 100 is below 70, 90 and 60, and the "continue current plan"
\* sentence appears iff no flag does.
C7_FlagsByExactPercentage ==
    resp.op = "basicAnalysis" =>
        LET total == Len(patientData.logs)
        IN  /\ Emitted(FoodFlag) <=> 100 * FullMeals < 70 * total
            /\ Emitted(MedFlag) <=> 100 * MedsGiven < 90 * total
            /\ Emitted(HydrationFlag) <=> 100 * Hydrated < 60 * total
            /\ Emitted(ContinuePlan) <=>
                  ~(Emitted(FoodFlag) \/ Emitted(MedFlag) \/ Emitted(HydrationFlag))

\* C7 amended: the flags appear iff the percentage count / total * 100,
\* rounded to the nearest integer (halves upwards), is below 70, 90 and 60,
\* that is iff the exact percentage is below 69.5, 89.5 and 59.5; the
\* "continue current plan" sentence appears iff no flag does.
C7_FlagsByRoundedPercentage ==
    resp.op = "basicAnalysis" =>
        LET total == Len(patientData.logs)
        IN  /\ Emitted(FoodFlag) <=> 200 * FullMeals < 139 * total
            /\ Emitted(MedFlag) <=> 200 * MedsGiven < 179 * total
            /\ Emitted(HydrationFlag) <=> 200 * Hydrated < 119 * total
            /\ Emitted(ContinuePlan) <=>
                  ~(Emitted(FoodFlag) \/ Emitted(MedFlag) \/ Emitted(HydrationFlag))

\* The heuristic has run on 23 logs of which 16 have food "full" (69.57 %,
\* shown as 70 %): no food flag, while the medication flag is emitted.
C7_Witness ==
    /\ resp.op = "basicAnalysis"
    /\ Len(patientData.logs) = 23
    /\ FullMeals = 16
    /\ ~Emitted(FoodFlag)
    /\ Emitted(MedFlag)
    /\ ~Emitted(ContinuePlan)

\* The stored logs of patient id whose createdAt lies in the trailing
\* 7 x 24 h window that ends at the clock.
InTrailingWindow(id) ==
    {i \in 1..Len(logs) : /\ logs[i].patientId = id
                          /\ now - AnalysisWindow <= logs[i].createdAt
                          /\ logs[i].createdAt <= now}

\* C8: generateAnalysis for a stored patient with no log in the trailing
\* 7 x 24 h window answers the fixed no-data response with hasData = FALSE and
\* makes no external call, with or without a credential.
C8_NoDataWithoutRecentLogs ==
    [][\A t \in Tokens, id \in PatientIds, outcome \in {"ok", "error"} :
          (/\ GetAnalysis(t, id, outcome)
           /\ requireAuth(t).status = 200
           /\ FindPatient(id) # {}
           /\ InTrailingWindow(id) = {})
             => /\ resp'.status = 200
                /\ resp'.hasData = FALSE
                /\ resp'.external = FALSE]_vars

OtherRole(role) == IF role = "doctor" THEN "caregiver" ELSE "doctor"

\* The three causes of a failed login with well-formed input.
UnknownEmail(email) == FindUser("doctor", email) = {} /\ FindUser("caregiver", email) = {}

OnlyOtherRole(email, role) == FindUser(role, email) = {} /\ FindUser(OtherRole(role), email) # {}

WrongPassword(email, password, role) ==
    /\ FindUser(role, email) # {}
    /\ \A i \in FindUser(role, email) : ~verifyPassword(password, UserModel(role)[i].password)

\* C11: a login with well-formed email, password and role that fails because
\* the email is unknown, because the user exists only under the other role, or
\* because the password is wrong, is answered with one and the same response
\* (401, "Invalid credentials", no token) whichever cause applies, and leaves
\* the Session store as it was.
C11_LoginFailuresIndistinguishable ==
    [][\A e \in Emails, r \in Roles, p \in {GoodPassword, OtherPassword}, t \in Tokens :
          (/\ Login(e, p, r, t)
           /\ (UnknownEmail(e) \/ OnlyOtherRole(e, r) \/ WrongPassword(e, p, r)))
          => /\ resp' = [op |-> "login", status |-> 401,
                         error |-> "Invalid credentials", token |-> NoToken]
             /\ sessions' = sessions]_vars

\* A login was refused while the account exists under the doctor role only and
\* nobody is logged in: the cause is a wrong password or the other role.
C11_Witness ==
    /\ resp.op = "login"
    /\ resp.status = 401
    /\ FindUser("doctor", "a@x.org") # {}
    /\ FindUser("caregiver", "a@x.org") = {}
    /\ sessions = {}

C13_LogoutIdempotent ==
    [][\A t \in Tokens \cup {NoToken} :
          Logout(t)
          => /\ resp'.status = 200
             /\ {s \in sessions' : s.token = t} = {}
             /\ {s \in sessions' : s.token # t} = {s \in sessions : s.token # t}
             /\ (FindSession(t) = {} => sessions' = sessions)]_vars

\* A logout has been answered while one session is still stored and already
\* past its expiry.
C13_Witness ==
    /\ resp.op = "logout"
    /\ resp.status = 200
    /\ Cardinality(sessions) = 1
    /\ \E s \in sessions : s.expiresAt < now

\* ------------------------------------------------------------ backfill
\* C14: a backfill run with at least one doctor present leaves no patient
\* whose assignedDoctorIds is empty, null or missing, so that a run started
\* from such a store matches zero patients and changes nothing; and no run,
\* with or without doctors, modifies a patient whose assignedDoctorIds was
\* already non-empty.
C14_BackfillIdempotent ==
    [][Backfill
       => /\ Len(doctors) > 0 => \A p \in patients' : ~OpenToAll(p)
          /\ (Len(doctors) > 0 /\ \A p \in patients : ~OpenToAll(p))
                => (patients' = patients /\ resp'.matched = 0)
          /\ \A p \in patients : ~OpenToAll(p) => p \in patients'
          /\ {p.id : p \in patients'} = {p.id : p \in patients}]_vars

\* A run has just matched at least one patient and given it the list of all
\* doctors, next to a patient whose own list was kept.
C14_Witness ==
    /\ resp.op = "backfill"
    /\ resp.status = 0
    /\ resp.matched > 0
    /\ \E p \in patients : p.assignedDoctorIds = Arr(<<"a@x.org">>)
    /\ \E q \in patients : q.assignedDoctorIds = Arr(<<"b@x.org">>)

\* ------------------------------------------------------------ concurrent register
EmailsUnique(coll) == \A i, j \in 1..Len(coll) : coll[i].email = coll[j].email => i = j

\* C15: however the existence checks and the inserts of concurrent register
\* requests interleave, no user collection ever holds two users with one email;
\* the insert of a request whose email its role's collection does not hold
\* succeeds with 201, whether or not the other role's collection holds that
\* email, and the insert of every later request with that email and role is
\* answered 409 "Email already registered", never 500, and stores nothing.
C15_RegisterRaceConflict ==
    [][\A i \in 1..MaxRegisterReqs :
          RegisterInsert(i)
          => LET req == registerReqs[i]
                 taken == FindUser(req.role, req.email) # {}
             IN  /\ resp'.status = IF taken THEN 409 ELSE 201
                 /\ taken => resp'.error = "Email already registered"
                 /\ doctors' = IF ~taken /\ req.role = "doctor"
                               THEN Append(doctors, req) ELSE doctors
                 /\ caregivers' = IF ~taken /\ req.role = "caregiver"
                                  THEN Append(caregivers, req) ELSE caregivers
                 /\ EmailsUnique(doctors') /\ EmailsUnique(caregivers')]_vars

\* A request that had passed the existence check was refused by the store and
\* answered 409 from the catch block, while the same email is registered once
\* under each role.
C15_Witness ==
    /\ resp.op = "register"
    /\ resp.logged
    /\ resp.status = 409
    /\ Cardinality(FindUser("doctor", "a@x.org")) = 1
    /\ Cardinality(FindUser("caregiver", "a@x.org")) = 1

====
